---------------------------- MODULE Spec2Model ----------------------------
(***************************************************************************)
(* Model of bin/doc-ai-processor.py: the section-processing pipeline       *)
(* (process_section), the two generation calls of AIProcessor             *)
(* (generate_summary, generate_index), the JSON extraction of              *)
(* generate_index and the forensics files both calls write.                *)
(*                                                                         *)
(* Two kinds of strings occur.                                             *)
(*  - Source text and summary responses are handled by the code only      *)
(*    through len(), slicing, strip() and count(): they are modelled as    *)
(*    run-length encoded strings, a sequence of runs [ch, n] (n >= 1,      *)
(*    adjacent runs of different characters), so that texts around the     *)
(*    50,000 character limit are ordinary values.                          *)
(*  - Index responses are scanned by a regular expression and by the JSON  *)
(*    parser: they are modelled as sequences of lexical tokens.            *)
(***************************************************************************)
EXTENDS Integers, Sequences, FiniteSets, TLC

(***************************************************************************)
(* Bounds of the model                                                     *)
(***************************************************************************)
MaxRuns == 2        \* process_section invocations in one behaviour
MaxClock == 2       \* clock ticks in one behaviour
TicksPerSecond == 2 \* clock ticks in one second of wall-clock time
MaxGarbage == 3     \* longest arbitrary token string among the responses
MaxDepth == 1       \* nesting depth of the generated JSON payloads

(***************************************************************************)
(* Program constants                                                       *)
(***************************************************************************)
MaxSourceChars == 50000    \* text[:50000], len(text) > 50000
MinSummaryChars == 100     \* len(response) < 100
DebugChars == 500          \* response[:500], response[-500:]

(***************************************************************************)
(* Run-length encoded strings (source text, summary responses)             *)
(***************************************************************************)
Run(c, k) == [ch |-> c, n |-> k]

RECURSIVE RLen(_)
\* len(s)
RLen(s) == IF s = <<>> THEN 0 ELSE Head(s).n + RLen(Tail(s))

RECURSIVE RTake(_, _)
\* s[:k]
RTake(s, k) ==
    IF s = <<>> \/ k <= 0 THEN <<>>
    ELSE IF Head(s).n <= k
         THEN <<Head(s)>> \o RTake(Tail(s), k - Head(s).n)
         ELSE <<Run(Head(s).ch, k)>>

\* the characters str.strip() removes
IsSpace(c) == c \in {" ", "\n", "\r", "\t"}

RECURSIVE LStrip(_)
LStrip(s) ==
    IF s = <<>> THEN <<>>
    ELSE IF IsSpace(Head(s).ch) THEN LStrip(Tail(s)) ELSE s

RECURSIVE RStrip(_)
RStrip(s) ==
    IF s = <<>> THEN <<>>
    ELSE IF IsSpace(s[Len(s)].ch) THEN RStrip(SubSeq(s, 1, Len(s) - 1)) ELSE s

\* text.strip()
Strip(s) == RStrip(LStrip(s))

RECURSIVE RCount(_, _)
\* s.count(c) for a single character c
RCount(s, c) ==
    IF s = <<>> THEN 0
    ELSE (IF Head(s).ch = c THEN Head(s).n ELSE 0) + RCount(Tail(s), c)

(***************************************************************************)
(* Token strings (index responses)                                         *)
(***************************************************************************)
\* Tokens: the structural characters of JSON as themselves, and
FENCE == "FENCE"    \* a code fence, three backticks
TAG == "json"       \* the word json
QUOTE == "Q"        \* a double quote
WS == "_"           \* a space

\* the number of characters of one token
TokLen(t) == IF t = FENCE THEN 3 ELSE IF t \in {TAG, "null"} THEN 4 ELSE 1

RECURSIVE StrLen(_)
\* len(s), in characters
StrLen(s) == IF s = <<>> THEN 0 ELSE TokLen(Head(s)) + StrLen(Tail(s))

\* s[a:b] with Python's 0-based, end-exclusive token positions
Slice(s, a, b) == SubSeq(s, a + 1, b)

\* s.find(t): 0-based position of the first t, -1 when absent
Find(s, t) ==
    IF \E i \in 1..Len(s) : s[i] = t
    THEN (CHOOSE i \in 1..Len(s) : s[i] = t /\ \A j \in 1..(i - 1) : s[j] # t) - 1
    ELSE -1

\* s.rfind(t): 0-based position of the last t, -1 when absent
RFind(s, t) ==
    IF \E i \in 1..Len(s) : s[i] = t
    THEN (CHOOSE i \in 1..Len(s) : s[i] = t /\ \A j \in (i + 1)..Len(s) : s[j] # t) - 1
    ELSE -1

RECURSIVE THead(_, _)
\* s[:k], k in characters: the tokens that lie wholly in the first k characters
THead(s, k) ==
    IF s = <<>> \/ TokLen(Head(s)) > k THEN <<>>
    ELSE <<Head(s)>> \o THead(Tail(s), k - TokLen(Head(s)))

RECURSIVE TTail(_, _)
\* s[-k:], k in characters: the tokens that lie wholly in the last k characters
TTail(s, k) ==
    IF s = <<>> \/ TokLen(s[Len(s)]) > k THEN <<>>
    ELSE TTail(SubSeq(s, 1, Len(s) - 1), k - TokLen(s[Len(s)])) \o <<s[Len(s)]>>

(***************************************************************************)
(* json.loads                                                              *)
(*                                                                         *)
(* The parser is a pushdown recognizer over the tokens. A parsed value is  *)
(* [ok, type, canon]: its JSON type and its text without the               *)
(* insignificant whitespace, which identifies the value.                   *)
(***************************************************************************)
NoValue == [ok |-> FALSE, type |-> "none", canon |-> <<>>]

RECURSIVE SkipWs(_, _)
\* the first position at or after i that holds no whitespace
SkipWs(s, i) == IF i <= Len(s) /\ s[i] = WS THEN SkipWs(s, i + 1) ELSE i

RECURSIVE ScanNumber(_, _)
\* the position after the digits that start at i
ScanNumber(s, i) == IF i <= Len(s) /\ s[i] = "1" THEN ScanNumber(s, i + 1) ELSE i

RECURSIVE ScanString(_, _)
\* the position after the string literal whose opening quote is at i - 1,
\* 0 when the literal is not terminated (the tokens hold no escape)
ScanString(s, i) ==
    IF i > Len(s) THEN 0
    ELSE IF s[i] = QUOTE THEN i + 1 ELSE ScanString(s, i + 1)

Push(stack, t) == <<t>> \o stack

RECURSIVE Accepts(_, _, _, _)
\* Whether the tokens from i on complete a JSON text, stack holding the open
\* brackets (innermost first) and st what is expected at i:
\*   "value"       a value
\*   "first_elem"  a value or "]" (after "[")
\*   "first_key"   a member name or "}" (after "{")
\*   "key"         a member name (after ",")
\*   "colon"       ":"
\*   "after"       what may follow a value: "," or the closing bracket, or the
\*                 end of the text when no bracket is open
Accepts(s, i, stack, st) ==
    IF i > Len(s) THEN st = "after" /\ stack = <<>>
    ELSE IF s[i] = WS THEN Accepts(s, i + 1, stack, st)
    ELSE IF st \in {"value", "first_elem"} THEN
        IF s[i] = "{" THEN Accepts(s, i + 1, Push(stack, "{"), "first_key")
        ELSE IF s[i] = "[" THEN Accepts(s, i + 1, Push(stack, "["), "first_elem")
        ELSE IF s[i] = QUOTE
        THEN ScanString(s, i + 1) > 0 /\ Accepts(s, ScanString(s, i + 1), stack, "after")
        ELSE IF s[i] = "1" THEN Accepts(s, ScanNumber(s, i), stack, "after")
        ELSE IF s[i] = "null" THEN Accepts(s, i + 1, stack, "after")
        ELSE IF s[i] = "]" /\ st = "first_elem" THEN Accepts(s, i + 1, Tail(stack), "after")
        ELSE FALSE
    ELSE IF st \in {"key", "first_key"} THEN
        IF s[i] = QUOTE
        THEN ScanString(s, i + 1) > 0 /\ Accepts(s, ScanString(s, i + 1), stack, "colon")
        ELSE IF s[i] = "}" /\ st = "first_key" THEN Accepts(s, i + 1, Tail(stack), "after")
        ELSE FALSE
    ELSE IF st = "colon" THEN s[i] = ":" /\ Accepts(s, i + 1, stack, "value")
    ELSE IF stack = <<>> THEN FALSE
    ELSE IF s[i] = "," THEN Accepts(s, i + 1, stack, IF Head(stack) = "{" THEN "key" ELSE "value")
    ELSE IF s[i] = "}" /\ Head(stack) = "{" THEN Accepts(s, i + 1, Tail(stack), "after")
    ELSE IF s[i] = "]" /\ Head(stack) = "[" THEN Accepts(s, i + 1, Tail(stack), "after")
    ELSE FALSE

RECURSIVE Canon(_, _)
\* the text from i on without the whitespace outside string literals
Canon(s, i) ==
    IF i > Len(s) THEN <<>>
    ELSE IF s[i] = WS THEN Canon(s, i + 1)
    ELSE IF s[i] = QUOTE /\ ScanString(s, i + 1) > 0
    THEN SubSeq(s, i, ScanString(s, i + 1) - 1) \o Canon(s, ScanString(s, i + 1))
    ELSE <<s[i]>> \o Canon(s, i + 1)

\* the JSON type of the value that starts with token t
TypeOf(t) ==
    IF t = "{" THEN "object"
    ELSE IF t = "[" THEN "array"
    ELSE IF t = QUOTE THEN "string"
    ELSE IF t = "1" THEN "number"
    ELSE "null"

\* json.loads(s): one value with whitespace around it and nothing else;
\* ok = FALSE stands for json.JSONDecodeError
json_loads(s) ==
    IF Accepts(s, 1, <<>>, "value")
    THEN [ok |-> TRUE, type |-> TypeOf(Head(Canon(s, 1))), canon |-> Canon(s, 1)]
    ELSE NoValue

\* a parsed value
Parsed(v) == [type |-> v.type, canon |-> v.canon]

NoIndex == [type |-> "none", canon |-> <<>>]

(***************************************************************************)
(* re.search(r'```(?:json)?\s*(\{.*?\})\s*```', response, re.DOTALL)       *)
(***************************************************************************)
\* whether position i holds a fence
FenceAt(s, i) == i <= Len(s) /\ s[i] = FENCE

\* The ends of the group that starts with the "{" at b: a "}" that whitespace
\* and a fence follow.
GroupEnds(s, b) == {e \in (b + 1)..Len(s) : s[e] = "}" /\ FenceAt(s, SkipWs(s, e + 1))}

\* the position the group starts at, for a match starting with the fence at i:
\* after the optional tag and the whitespace
GroupStart(s, i) == SkipWs(s, IF i + 1 <= Len(s) /\ s[i + 1] = TAG THEN i + 2 ELSE i + 1)

\* whether a group starts at b
GroupAt(s, b) == b <= Len(s) /\ s[b] = "{" /\ GroupEnds(s, b) # {}

\* whether the pattern matches from position i
MatchesAt(s, i) == s[i] = FENCE /\ GroupAt(s, GroupStart(s, i))

\* the least element of a non-empty set of positions
Least(ps) == CHOOSE p \in ps : \A q \in ps : p <= q

\* group(1) of the match whose group starts at b: .*? is lazy, the group ends
\* at the first possible end
Group(s, b) == SubSeq(s, b, Least(GroupEnds(s, b)))

\* the leftmost of the matches that start at the positions ms
Leftmost(s, ms) ==
    IF ms = {} THEN [found |-> FALSE, group |-> <<>>]
    ELSE [found |-> TRUE, group |-> Group(s, GroupStart(s, Least(ms)))]

\* json_match: [found, group]
re_search(s) == Leftmost(s, {i \in 1..Len(s) : MatchesAt(s, i)})

(***************************************************************************)
(* The JSON extraction of generate_index                                   *)
(***************************************************************************)
\* if json_match: response = json_match.group(1)
Assigned(raw, json_match) == IF json_match.found THEN json_match.group ELSE raw

\* the value of the variable response from the extraction on
Reassigned(raw) == Assigned(raw, re_search(raw))

\* if json_start >= 0 and json_end > json_start: json.loads(response[json_start:json_end])
Span(response, json_start, json_end) ==
    IF json_start >= 0 /\ json_end > json_start
    THEN json_loads(Slice(response, json_start, json_end))
    ELSE NoValue

\* the fallback: the text from the first "{" to the last "}" of response, parsed
Fallback(response) == Span(response, Find(response, "{"), RFind(response, "}") + 1)

\* [ok, value, response, doc]: whether generate_index returns, the value it
\* returns, its variable response, and the document of the JSONDecodeError e
\* it reports when neither the first parse nor the fallback gave a value
Outcome(response, first, second) ==
    IF first.ok
    THEN [ok |-> TRUE, value |-> Parsed(first), response |-> response, doc |-> <<>>]
    ELSE IF second.ok
    THEN [ok |-> TRUE, value |-> Parsed(second), response |-> response, doc |-> <<>>]
    ELSE [ok |-> FALSE, value |-> NoIndex, response |-> response, doc |-> response]

\* the extraction on the variable response
Extract(response) == Outcome(response, json_loads(response), Fallback(response))

\* the extraction of generate_index on the provider's answer raw
ExtractIndex(raw) == Extract(Reassigned(raw))

(***************************************************************************)
(* Inputs                                                                  *)
(***************************************************************************)
\* section_info records, as main builds them
Section(nm) ==
    [name |-> nm, title |-> IF nm = "intro" THEN "Introduction" ELSE "Setup",
     description |-> "",
     doc_version |-> "unknown", source_name |-> "doc1"]

Sections == {Section("intro"), Section("setup")}

\* text files of the pipeline, as bytes: empty, blank, short, and around the limit
Texts ==
    { <<>>,
      <<Run(" ", 2), Run("\n", 1)>>,
      <<Run(" ", 1), Run("a", 1), Run("\r", 1), Run("\n", 1)>>,
      <<Run("a", MaxSourceChars - 1), Run("\n", 1)>>,
      <<Run("a", MaxSourceChars), Run("b", 1)>> }

\* summary responses: just under, at and over the anomaly threshold
SummaryResponses ==
    { <<Run("a", MinSummaryChars - 2), Run("\n", 1)>>,
      <<Run("a", MinSummaryChars - 1), Run("\n", 1)>>,
      <<Run("#", 1), Run("a", MinSummaryChars)>> }

\* all token strings of length n over the tokens of ts
TokenStrings(ts, n) == UNION {[1..k -> ts] : k \in 0..n}

\* JSON texts of nesting depth at most d
RECURSIVE Payloads(_)
Payloads(d) ==
    IF d = 0
    THEN { <<"{", "}">>, <<"[", "]">>, <<"1">>, <<"null">>, <<QUOTE, "x", QUOTE>>,
           <<QUOTE, "}", FENCE, QUOTE>> }
    ELSE Payloads(d - 1)
         \cup {<<"{", QUOTE, "x", QUOTE, ":">> \o v \o <<"}">> : v \in Payloads(d - 1)}
         \cup {<<"{", WS, QUOTE, "x", QUOTE, ":", WS>> \o v \o <<WS, "}">> : v \in Payloads(d - 1)}
         \cup {<<"[">> \o v \o <<"]">> : v \in Payloads(d - 1)}

\* wrap(json): the payload in a fenced code block, tagged json or untagged
FencedTagged(p) == <<FENCE, TAG, WS>> \o p \o <<WS, FENCE>>
FencedUntagged(p) == <<FENCE, WS>> \o p \o <<WS, FENCE>>
Fenced(p) == {FencedTagged(p), FencedUntagged(p)}

\* the payload between prose, and after a sentence that announces it
InProse(p) == <<"x", WS>> \o p \o <<WS, "x">>
Announced(p) == <<"x", WS>> \o FencedTagged(p) \o <<WS, "x">>

\* texts that are no JSON, used as payloads of broken responses
Broken == { <<"{", "x", "}">>, <<"{", QUOTE, "x", QUOTE, ":">>, <<"x">> }

\* provider responses to the index prompt
Responses ==
    TokenStrings({"{", "}", FENCE, "x", "1"}, MaxGarbage)
    \cup UNION { {p, InProse(p), Announced(p)} \cup Fenced(p) :
                 p \in Payloads(MaxDepth) \cup Broken }
    \cup { <<"{", QUOTE, "x", QUOTE, ":", QUOTE>> \o FencedUntagged(p) \o <<QUOTE, "}">> :
           p \in Broken }

\* the index responses of the pipeline specification
PipelineResponses ==
    { InProse(<<"{", QUOTE, "x", QUOTE, ":", "1", "}">>),
      <<"x">>,
      Announced(<<"{", "x", "}">>) }

(***************************************************************************)
(* Prompt Builder                                                          *)
(***************************************************************************)
\* the text embedded without the slice
EmbeddedSource_whole(text) == text

\* {text[:50000]}
EmbeddedSource(text) == RTake(text, MaxSourceChars)

\* {"... [text truncated for length] ..." if len(text) > 50000 else ""}
TruncationMarker(text) == RLen(text) > MaxSourceChars

\* the user prompt of generate_summary: the fields the template embeds
SummaryPrompt(text, info) ==
    [task |-> "summary", section_title |-> info.title, section_name |-> info.name,
     doc_version |-> info.doc_version, description |-> info.description,
     source |-> EmbeddedSource(text), marker |-> TruncationMarker(text)]

\* the user prompt of generate_index
IndexPrompt(text, info) ==
    [task |-> "index", section_title |-> info.title, section_name |-> info.name,
     doc_version |-> "", description |-> "",
     source |-> EmbeddedSource(text), marker |-> TruncationMarker(text)]

(***************************************************************************)
(* Files                                                                   *)
(***************************************************************************)
\* datetime.now().strftime('%Y%m%d-%H%M%S'): the clock cut to whole seconds
Stamp(now) == ToString(now \div TicksPerSecond)

\* output_dir / f"FAILED-summary-response-{section_name}-{stamp}.txt"
SummaryForensicsFile(info, now) ==
    <<"FAILED-summary-response", info.name, Stamp(now), "txt">>

\* output_dir / f"FAILED-index-response-{section_name}-{stamp}.txt"
IndexForensicsFile(info, now) ==
    <<"FAILED-index-response", info.name, Stamp(now), "txt">>

\* output_dir / f"{source_name}.digest.{section_name}.md"
SummaryFile(info) == <<info.source_name, "digest", info.name, "md">>

\* output_dir / f"{source_name}.index.{section_name}.json"
IndexFile(info) == <<info.source_name, "index", info.name, "json">>

NoFile == <<"", "", "", "">>

\* The content of a file: what it is, and for a forensics file the section
\* title, the time, the response length, the parse error and the response
\* (text: a run-length string, tokens: a token string).
Content(k, ti, ts, ln, er, tx, tk) ==
    [kind |-> k, title |-> ti, timestamp |-> ts, length |-> ln, error |-> er,
     text |-> tx, tokens |-> tk]

\* the file generate_summary writes for a short response
SummaryForensics(response, info, now) ==
    Content("Suspiciously Short Summary", info.title, now, RLen(response), <<>>,
            response, <<>>)

\* the file generate_index writes when no JSON could be parsed: response is the
\* value of the variable response at that point, doc the document of e
IndexForensics(response, doc, info, now) ==
    Content("Failed JSON Parse", info.title, now, StrLen(response), doc, <<>>, response)

\* open(name, "w") and the writes: the file is created or replaced
Put(fs, name, content) ==
    [n \in DOMAIN fs \cup {name} |-> IF n = name THEN content ELSE fs[n]]

\* a forensics write inside try/except: it takes effect, or fails and leaves no file
TryPut(fs, name, content, writeOk) == IF writeOk THEN Put(fs, name, content) ELSE fs

(***************************************************************************)
(* Errors and results                                                      *)
(***************************************************************************)
Error(k, d) == [kind |-> k, doc |-> d]

NoError == Error("none", <<>>)

\* the threshold compared with <=
IsShortSummary_inclusive(response) == RLen(response) <= MinSummaryChars

\* if len(response) < 100
IsShortSummary(response) == RLen(response) < MinSummaryChars

\* return response, after the forensics write (if any) went as writeOk says:
\* its failure is caught and logged
SummaryReturn(response, writeOk) == response

\* the error of a failed forensics write escaping instead of being caught
IndexFailure_escalating(doc, writeOk) ==
    IF writeOk THEN Error("json_parse", doc) ELSE Error("io", <<>>)

\* raise RuntimeError(f"Failed to parse AI-generated JSON: {e}"), after the
\* forensics write went as writeOk says
IndexFailure(doc, writeOk) == Error("json_parse", doc)

\* the check without strip()
IsBlank_unstripped(text) == text = <<>>

\* if not text.strip()
IsBlank(text) == Strip(text) = <<>>

\* a retry after the first request
Issued_retried(prompt) == <<prompt, prompt>>

\* call_ai: the requests one call issues for a prompt, whether the provider
\* answers or the call raises (one create(...) inside the try)
Issued(prompt) == <<prompt>>

\* what the provider's client may raise
ProviderMessages == {"timeout", "401 authentication_error"}

\* raise RuntimeError(f"AI API call failed: {e}")
CallFailure(e) == Error("provider", <<"AI API call failed: ", e>>)

NoResult == [summary |-> NoFile, index |-> NoFile, char_count |-> 0, line_count |-> 0]

NoDebug == [length |-> 0, first |-> <<>>, last |-> <<>>]

NoRaw == [summary |-> <<>>, index |-> <<>>]

(***************************************************************************)
(* Reading the text file.  The content of a file is a run-length string of *)
(* bytes: the ASCII characters stand for their own bytes, and "C3", "A9"   *)
(* and "FF" are the bytes of those values ("C3" "A9" is U+00E9 in UTF-8,   *)
(* "FF" occurs in no UTF-8 text).                                          *)
(***************************************************************************)
Ascii == {"a", "b", " ", "\n", "\r", "\t"}

\* s followed by k characters c, as a run-length string
RAppend(s, c, k) ==
    IF k = 0 THEN s
    ELSE IF s # <<>> /\ s[Len(s)].ch = c
         THEN [s EXCEPT ![Len(s)].n = @ + k]
         ELSE Append(s, Run(c, k))

NoText == [ok |-> FALSE, text |-> <<>>]

\* f.read() with encoding="utf-8", before the newlines are translated: the
\* characters of the bytes from run i on, after acc; not ok when the bytes
\* are no UTF-8 text (UnicodeDecodeError)
RECURSIVE Utf8(_, _, _)
Utf8(bytes, i, acc) ==
    IF i > Len(bytes) THEN [ok |-> TRUE, text |-> acc]
    ELSE IF bytes[i].ch \in Ascii
         THEN Utf8(bytes, i + 1, RAppend(acc, bytes[i].ch, bytes[i].n))
    ELSE IF /\ bytes[i].ch = "C3" /\ bytes[i].n = 1 /\ i < Len(bytes)
            /\ bytes[i + 1].ch = "A9" /\ bytes[i + 1].n = 1
         THEN Utf8(bytes, i + 2, RAppend(acc, "U+00E9", 1))
    ELSE NoText

\* the character latin-1 gives a byte
Latin1Char(b) ==
    IF b = "C3" THEN "U+00C3"
    ELSE IF b = "A9" THEN "U+00A9"
    ELSE IF b = "FF" THEN "U+00FF"
    ELSE b

\* f.read() with encoding="latin-1", before the newlines are translated:
\* one character for every byte
Latin1(bytes) == [i \in DOMAIN bytes |-> Run(Latin1Char(bytes[i].ch), bytes[i].n)]

\* try utf-8, except UnicodeDecodeError: latin-1
Decoded(u, bytes) == IF u.ok THEN u.text ELSE Latin1(bytes)

Decode(bytes) == Decoded(Utf8(bytes, 1, <<>>), bytes)

\* open(text_file, "r", ...) has newline=None: on reading, "\r\n" and a
\* lone "\r" both become "\n".  The characters of s from run i on, after acc.
RECURSIVE Newlines(_, _, _)
Newlines(s, i, acc) ==
    IF i > Len(s) THEN acc
    ELSE IF s[i].ch = "\r"
         THEN IF i < Len(s) /\ s[i + 1].ch = "\n"
              THEN Newlines(s, i + 2, RAppend(acc, "\n", s[i].n + s[i + 1].n - 1))
              ELSE Newlines(s, i + 1, RAppend(acc, "\n", s[i].n))
    ELSE Newlines(s, i + 1, RAppend(acc, s[i].ch, s[i].n))

\* text = f.read() of process_section
ReadText(bytes) == Newlines(Decode(bytes), 1, <<>>)

\* the files main may find at --text-file
TextFiles ==
    { <<>>,
      <<Run(" ", 1), Run("\r", 1), Run("\n", 1)>>,
      <<Run("a", 2), Run("\n", 1), Run("b", 1)>>,
      <<Run("a", 1), Run("\r", 2), Run("\n", 2), Run("b", 1), Run("\r", 1)>>,
      <<Run("C3", 1), Run("A9", 1), Run("a", 1), Run("\r", 1), Run("\n", 1)>>,
      <<Run("FF", 1), Run("C3", 1), Run("A9", 1), Run("\n", 1)>> }

(***************************************************************************)
(* Command line, environment and the construction of the processor         *)
(***************************************************************************)
\* None: an option that was not given, a variable that is not set
Unset == "(unset)"

\* only None counts as absent
Falsy_unsetOnly(v) == v = Unset

\* `not v` for v a str or None
Falsy(v) == v \in {Unset, ""}

\* str.lower() on the provider names
Lower(p) ==
    IF p = "Anthropic" THEN "anthropic"
    ELSE IF p = "OpenAI" THEN "openai"
    ELSE p

\* choices=["anthropic", "openai"]
ProviderChoices == {"anthropic", "openai"}

\* args.provider: --provider, or its default os.getenv("AI_PROVIDER", "anthropic")
ProviderArg(a, e) ==
    IF a.provider # Unset THEN a.provider
    ELSE IF e.AI_PROVIDER # Unset THEN e.AI_PROVIDER
    ELSE "anthropic"

\* args.model: --model, or its default os.getenv("AI_MODEL")
ModelArg(a, e) == IF a.model # Unset THEN a.model ELSE e.AI_MODEL

\* parse_args() checks an option given on the command line against its
\* choices, and leaves a default unchecked
Accepted(a) == a.provider \in ProviderChoices \cup {Unset}

\* the model a processor takes when none is given
DefaultModel(kind) ==
    IF kind = "anthropic" THEN "claude-sonnet-4-5-20250929" ELSE "gpt-4-turbo-preview"

\* os.getenv("ANTHROPIC_API_KEY"), os.getenv("OPENAI_API_KEY")
Credential(kind, e) ==
    IF kind = "anthropic" THEN e.ANTHROPIC_API_KEY ELSE e.OPENAI_API_KEY

\* ANTHROPIC_AVAILABLE, OPENAI_AVAILABLE
Available(kind, e) == kind \in e.installed

\* a construction that raised error
NotConstructed(error) == [ok |-> FALSE, provider |-> "", model |-> "", error |-> error]

NoProcessor == NotConstructed("")

\* _setup_client for the provider kind
SetupClient(kind, model, e) ==
    IF kind \notin {"anthropic", "openai"}
    THEN NotConstructed("Unsupported AI provider")
    ELSE IF ~Available(kind, e)
    THEN NotConstructed("package not installed")
    ELSE IF Falsy(Credential(kind, e))
    THEN NotConstructed("environment variable not set")
    ELSE [ok |-> TRUE, provider |-> kind,
          model |-> IF Falsy(model) THEN DefaultModel(kind) ELSE model,
          error |-> ""]

\* AIProcessor(provider=..., model=...)
AIProcessor(provider, model, e) == SetupClient(Lower(provider), model, e)

\* the options of a command line that processes the section "intro"
ProcessIntro ==
    [provider |-> Unset, model |-> Unset,
     test_connection |-> FALSE, list_models |-> FALSE,
     text_file |-> "doc1.intro.txt", section_name |-> "intro",
     section_title |-> "Introduction", section_description |-> "",
     doc_version |-> "unknown", source_name |-> "doc1", output_dir |-> "out"]

\* no option given
NoOptions ==
    [provider |-> Unset, model |-> Unset,
     test_connection |-> FALSE, list_models |-> FALSE,
     text_file |-> Unset, section_name |-> Unset,
     section_title |-> Unset, section_description |-> "",
     doc_version |-> "unknown", source_name |-> Unset, output_dir |-> Unset]

\* the command lines main is started with
CommandLines ==
    { ProcessIntro,
      [ProcessIntro EXCEPT !.provider = "openai", !.model = "m"],
      [ProcessIntro EXCEPT !.provider = "gemini"],
      [ProcessIntro EXCEPT !.text_file = Unset],
      [ProcessIntro EXCEPT !.section_name = Unset],
      [ProcessIntro EXCEPT !.section_title = ""],
      [ProcessIntro EXCEPT !.source_name = Unset],
      [ProcessIntro EXCEPT !.output_dir = Unset],
      NoOptions,
      [NoOptions EXCEPT !.test_connection = TRUE],
      [NoOptions EXCEPT !.list_models = TRUE, !.provider = "openai"],
      [ProcessIntro EXCEPT !.test_connection = TRUE, !.list_models = TRUE] }

\* the environments main is started in: the variables it reads, the provider
\* packages that can be imported, and whether the text file exists
Environments ==
    [ANTHROPIC_API_KEY : {Unset, "", "sk"},
     OPENAI_API_KEY : {Unset, "sk"},
     AI_PROVIDER : {Unset, "OpenAI", "gemini"},
     AI_MODEL : {Unset, ""},
     OUTPUT_DIR : {Unset, "out"},
     installed : {{"anthropic", "openai"}, {"openai"}},
     exists : BOOLEAN]

\* the environment process_section is called in
Configured ==
    [ANTHROPIC_API_KEY |-> "sk", OPENAI_API_KEY |-> Unset, AI_PROVIDER |-> Unset,
     AI_MODEL |-> Unset, OUTPUT_DIR |-> "out",
     installed |-> {"anthropic", "openai"}, exists |-> TRUE]

\* section_info, as main builds it from the options
SectionInfo(a) ==
    [name |-> a.section_name, title |-> a.section_title,
     description |-> a.section_description,
     doc_version |-> a.doc_version, source_name |-> a.source_name]

\* the first required option that is missing, in the order main checks them
\* (a Path is never false; a str is false when empty); Unset when none is
Missing(a) ==
    IF a.text_file = Unset THEN "--text-file"
    ELSE IF Falsy(a.section_name) THEN "--section-name"
    ELSE IF Falsy(a.section_title) THEN "--section-title"
    ELSE IF Falsy(a.source_name) THEN "--source-name"
    ELSE IF a.output_dir = Unset THEN "--output-dir"
    ELSE Unset

\* Path(os.getenv("OUTPUT_DIR", ".")): where the forensics files go
ForensicsDir(e) == IF e.OUTPUT_DIR = Unset THEN "." ELSE e.OUTPUT_DIR

(***************************************************************************)
(* What a process leaves: exit status, standard output, diagnostics        *)
(***************************************************************************)
\* exit: <<>> while the process runs, then <<status>>
NoOutcome == [exit |-> <<>>, stdout |-> <<>>, stderr |-> <<>>]

NoOutput ==
    [success |-> FALSE, summary_file |-> NoFile, index_file |-> NoFile,
     char_count |-> 0, line_count |-> 0]

\* the object main prints for the result of process_section
Output(r) ==
    [success |-> TRUE, summary_file |-> r.summary, index_file |-> r.index,
     char_count |-> r.char_count, line_count |-> r.line_count]

\* print(...): a line on standard output
Said(o, what, output) ==
    [o EXCEPT !.stdout = Append(@, [what |-> what, output |-> output])]

\* print(..., file=sys.stderr): a diagnostic
Warned(o, prefix, about) ==
    [o EXCEPT !.stderr = Append(@, [prefix |-> prefix, about |-> about])]

\* sys.exit(status), or the end of main
Exited(o, status) == [o EXCEPT !.exit = <<status>>]

\* the failure reported as a warning
Fatal_warning(o, about) == Exited(Warned(o, "WARNING:", about), 1)

\* print(f"ERROR: ...", file=sys.stderr); sys.exit(1)
Fatal(o, about) == Exited(Warned(o, "ERROR:", about), 1)

\* parser.error(...): usage and "error: ..." on stderr, exit status 2
UsageError(o) == Exited(Warned(o, "usage:", "argument --provider: invalid choice"), 2)

\* an exception no handler catches: the traceback, exit status 1
Uncaught(o, about) == Exited(Warned(o, "Traceback", about), 1)

\* the prompt of the connection test, and the request of --list-models
TestPrompt ==
    [task |-> "test", section_title |-> "", section_name |-> "",
     doc_version |-> "", description |-> "", source |-> <<>>, marker |-> FALSE]

ModelsRequest == [TestPrompt EXCEPT !.task = "models"]

\* str.upper() on the letters of the test responses
Upper(s) ==
    [i \in DOMAIN s |->
        Run(IF s[i].ch = "o" THEN "O" ELSE IF s[i].ch = "k" THEN "K" ELSE s[i].ch,
            s[i].n)]

\* "OK" in s
HasOK(s) == \E i \in 1..(Len(s) - 1) : s[i].ch = "O" /\ s[i + 1].ch = "K"

\* what the provider may answer to the connection test
TestResponses ==
    { <<Run("O", 1), Run("K", 1)>>,
      <<Run("o", 1), Run("k", 1), Run("a", 1)>>,
      <<Run("K", 1), Run("O", 1)>> }

\* the digest written as soon as the summary is there
StepAfter_digestFirst(step) ==
    IF step = "summarize" THEN "write_summary"
    ELSE IF step = "write_summary" THEN "index"
    ELSE IF step = "index" THEN "write_index"
    ELSE "done"

\* the statements of process_section after the text is checked, in order:
\* generate_summary, generate_index, the digest, the index and the return
StepAfter(step) ==
    IF step = "summarize" THEN "index"
    ELSE IF step = "index" THEN "write_summary"
    ELSE IF step = "write_summary" THEN "write_index"
    ELSE "done"

(***************************************************************************)
(* State                                                                   *)
(***************************************************************************)
VARIABLES
    args,       \* the options of the command line
    env,        \* the environment of the process
    ai_processor, \* the AIProcessor main constructed
    outcome,    \* exit status, standard output and diagnostics of the process
    pc,         \* where the process stands.  In main: main, setup,
                \* test_connection, list_models, validate, mkdir, exited; in
                \* process_section: idle (not yet called), summarize, index,
                \* write_summary, write_index, done, failed
    runs,       \* process_section invocations begun
    clock,      \* wall-clock time, in ticks
    section,    \* section_info of the current invocation
    input,      \* the bytes of the text file the current invocation read
    text,       \* the text read by the current invocation
    sent,       \* the prompts of the provider requests issued by the invocation
    raw,        \* the responses the provider returned to the invocation
    summary,    \* what generate_summary returned
    index,      \* what generate_index returned
    error,      \* the exception that ended the invocation
    result,     \* what process_section returned
    debug,      \* the DEBUG lines of a failed extraction: length, first, last
    files,      \* the files written: file name -> content (the artifacts are
                \* in the output directory, the forensics files in ForensicsDir)
    attempts,   \* the forensics writes the invocation attempted: [name, ok, dir]
    written,    \* the names of the files the invocation wrote, in order
    anomalies,  \* short summaries and failed extractions so far
    lost        \* forensics writes that failed so far

vars == <<args, env, ai_processor, outcome, pc, runs, clock, section, input, text,
          sent, raw, summary, index, error, result, debug, files, attempts,
          written, anomalies, lost>>

\* process_section about to be called by a process that has constructed its
\* processor; the options play no part
Init ==
    /\ args = NoOptions
    /\ env = Configured
    /\ ai_processor = AIProcessor(ProviderArg(args, env), ModelArg(args, env), env)
    /\ outcome = NoOutcome
    /\ pc = "idle"
    /\ runs = 0
    /\ clock = 0
    /\ section = Section("intro")
    /\ input = <<>>
    /\ text = <<>>
    /\ sent = <<>>
    /\ raw = NoRaw
    /\ summary = <<>>
    /\ index = NoIndex
    /\ error = NoError
    /\ result = NoResult
    /\ debug = NoDebug
    /\ files = <<>>
    /\ attempts = <<>>
    /\ written = <<>>
    /\ anomalies = 0
    /\ lost = 0

(***************************************************************************)
(* process_section                                                         *)
(***************************************************************************)
\* process_section is called: the text file is read and checked
Begin(info, bytes) ==
    /\ pc \in {"idle", "done", "failed"}
    /\ runs < MaxRuns
    /\ runs' = runs + 1
    /\ section' = info
    /\ input' = bytes
    /\ text' = ReadText(bytes)
    /\ sent' = <<>>
    /\ raw' = NoRaw
    /\ summary' = <<>>
    /\ index' = NoIndex
    /\ result' = NoResult
    /\ debug' = NoDebug
    /\ attempts' = <<>>
    /\ written' = <<>>
    /\ IF IsBlank(text')
       THEN pc' = "failed" /\ error' = Error("empty_input", <<>>)
       ELSE pc' = "summarize" /\ error' = NoError
    /\ UNCHANGED <<args, env, ai_processor, outcome, clock, files, anomalies, lost>>

\* generate_summary: the provider answers response, a forensics write goes as writeOk says
Summarize(response, writeOk) ==
    /\ pc = "summarize"
    /\ sent' = sent \o Issued(SummaryPrompt(text, section))
    /\ raw' = [raw EXCEPT !.summary = response]
    /\ IF IsShortSummary(response)
       THEN /\ attempts' = Append(attempts,
                   [name |-> SummaryForensicsFile(section, clock), ok |-> writeOk,
                    dir |-> ForensicsDir(env)])
            /\ files' = TryPut(files, SummaryForensicsFile(section, clock),
                               SummaryForensics(response, section, clock), writeOk)
            /\ written' = IF writeOk
                          THEN Append(written, SummaryForensicsFile(section, clock))
                          ELSE written
            /\ anomalies' = anomalies + 1
            /\ lost' = IF writeOk THEN lost ELSE lost + 1
       ELSE UNCHANGED <<attempts, files, written, anomalies, lost>>
    /\ summary' = SummaryReturn(response, writeOk)
    /\ pc' = StepAfter("summarize")
    /\ UNCHANGED <<args, env, ai_processor, outcome>>
    /\ UNCHANGED <<runs, clock, section, input, text, index, error, result, debug>>

\* the rest of generate_index and its return to process_section, x being the
\* outcome of the extraction
Extracted(x, writeOk) ==
    IF x.ok
    THEN /\ index' = x.value
         /\ pc' = StepAfter("index")
         /\ UNCHANGED <<error, debug, attempts, files, written, anomalies, lost>>
    ELSE /\ attempts' = Append(attempts,
                [name |-> IndexForensicsFile(section, clock), ok |-> writeOk,
                 dir |-> ForensicsDir(env)])
         /\ files' = TryPut(files, IndexForensicsFile(section, clock),
                            IndexForensics(x.response, x.doc, section, clock), writeOk)
         /\ written' = IF writeOk
                       THEN Append(written, IndexForensicsFile(section, clock))
                       ELSE written
         /\ anomalies' = anomalies + 1
         /\ lost' = IF writeOk THEN lost ELSE lost + 1
         /\ debug' = [length |-> StrLen(x.response),
                      first |-> THead(x.response, DebugChars),
                      last |-> TTail(x.response, DebugChars)]
         /\ error' = IndexFailure(x.doc, writeOk)
         /\ pc' = "failed"
         /\ index' = index

\* generate_index: the provider answers response, a forensics write goes as
\* writeOk says
GenerateIndex(response, writeOk) ==
    /\ pc = "index"
    /\ sent' = sent \o Issued(IndexPrompt(text, section))
    /\ raw' = [raw EXCEPT !.index = response]
    /\ Extracted(ExtractIndex(response), writeOk)
    /\ UNCHANGED <<args, env, ai_processor, outcome>>
    /\ UNCHANGED <<runs, clock, section, input, text, summary, result>>

\* generate_index in the pipeline
Index == \E r \in PipelineResponses, ok \in BOOLEAN : GenerateIndex(r, ok)

\* call_ai raises: the request was issued and failed with e; neither
\* generate_summary, generate_index nor process_section catches the error
ProviderFails(e) ==
    /\ pc \in {"summarize", "index"}
    /\ sent' = sent \o Issued(IF pc = "summarize" THEN SummaryPrompt(text, section)
                               ELSE IndexPrompt(text, section))
    /\ pc' = "failed"
    /\ error' = CallFailure(e)
    /\ UNCHANGED <<args, env, ai_processor, outcome>>
    /\ UNCHANGED <<runs, clock, section, input, text, raw, summary, index, result, debug,
                   files, attempts, written, anomalies, lost>>

\* with open(summary_file, "w") ...: f.write(summary)
WriteSummary ==
    /\ pc = "write_summary"
    /\ files' = Put(files, SummaryFile(section),
                    Content("digest", "", 0, 0, <<>>, summary, <<>>))
    /\ written' = Append(written, SummaryFile(section))
    /\ pc' = StepAfter("write_summary")
    /\ UNCHANGED <<args, env, ai_processor, outcome>>
    /\ UNCHANGED <<runs, clock, section, input, text, sent, raw, summary, index, error,
                   result, debug, attempts, anomalies, lost>>

\* with open(index_file, "w") ...: json.dump(index, f, indent=2), and the return
WriteIndex ==
    /\ pc = "write_index"
    /\ files' = Put(files, IndexFile(section),
                    Content(index.type, "", 0, 0, <<>>, <<>>, index.canon))
    /\ written' = Append(written, IndexFile(section))
    /\ result' = [summary |-> SummaryFile(section), index |-> IndexFile(section),
                  char_count |-> RLen(text), line_count |-> RCount(text, "\n") + 1]
    /\ pc' = StepAfter("write_index")
    /\ UNCHANGED <<args, env, ai_processor, outcome>>
    /\ UNCHANGED <<runs, clock, section, input, text, sent, raw, summary, index, error,
                   debug, attempts, anomalies, lost>>

\* open() of an output artifact raises
ArtifactWriteFails ==
    /\ pc \in {"write_summary", "write_index"}
    /\ pc' = "failed"
    /\ error' = Error("io", <<>>)
    /\ UNCHANGED <<args, env, ai_processor, outcome>>
    /\ UNCHANGED <<runs, clock, section, input, text, sent, raw, summary, index, result,
                   debug, files, attempts, written, anomalies, lost>>

\* time passes
Tick ==
    /\ clock < MaxClock
    /\ clock' = clock + 1
    /\ UNCHANGED <<args, env, ai_processor, outcome>>
    /\ UNCHANGED <<pc, runs, section, input, text, sent, raw, summary, index, error,
                   result, debug, files, attempts, written, anomalies, lost>>

Next ==
    \/ \E info \in Sections, t \in Texts : Begin(info, t)
    \/ \E r \in SummaryResponses, ok \in BOOLEAN : Summarize(r, ok)
    \/ Index
    \/ \E e \in ProviderMessages : ProviderFails(e)
    \/ WriteSummary
    \/ WriteIndex
    \/ ArtifactWriteFails
    \/ Tick

Spec == Init /\ [][Next]_vars

(***************************************************************************)
(* generate_index on its own: process_section has read a text and          *)
(* generate_summary has returned; the provider may answer the index        *)
(* prompt with any of Responses.                                           *)
(***************************************************************************)
InitIndex ==
    /\ args = NoOptions
    /\ env = Configured
    /\ ai_processor = AIProcessor(ProviderArg(args, env), ModelArg(args, env), env)
    /\ outcome = NoOutcome
    /\ pc = "index"
    /\ runs = 1
    /\ clock \in 0..MaxClock
    /\ section \in Sections
    /\ input = <<Run("a", MaxSourceChars), Run("b", 1)>>
    /\ text = ReadText(input)
    /\ sent = <<SummaryPrompt(text, section)>>
    /\ raw = [summary |-> <<Run("#", 1), Run("a", MinSummaryChars)>>, index |-> <<>>]
    /\ summary = raw.summary
    /\ index = NoIndex
    /\ error = NoError
    /\ result = NoResult
    /\ debug = NoDebug
    /\ files = <<>>
    /\ attempts = <<>>
    /\ written = <<>>
    /\ anomalies = 0
    /\ lost = 0

NextIndex ==
    \/ \E r \in Responses, ok \in BOOLEAN : GenerateIndex(r, ok)
    \/ WriteSummary
    \/ WriteIndex

IndexSpec == InitIndex /\ [][NextIndex]_vars

(***************************************************************************)
(* main: one process, from the command line to the exit status             *)
(***************************************************************************)
pipeline == <<runs, clock, section, text, input, sent, raw, summary, index, error,
              result, debug, files, attempts, written, anomalies, lost>>

InitMain ==
    /\ pc = "main"
    /\ args \in CommandLines
    /\ env \in Environments
    /\ ai_processor = NoProcessor
    /\ outcome = NoOutcome
    /\ runs = 0
    /\ clock = 0
    /\ section = Section("intro")
    /\ text = <<>>
    /\ input = <<>>
    /\ sent = <<>>
    /\ raw = NoRaw
    /\ summary = <<>>
    /\ index = NoIndex
    /\ error = NoError
    /\ result = NoResult
    /\ debug = NoDebug
    /\ files = <<>>
    /\ attempts = <<>>
    /\ written = <<>>
    /\ anomalies = 0
    /\ lost = 0

\* args = parser.parse_args()
ParseArgs ==
    /\ pc = "main"
    /\ IF Accepted(args)
       THEN pc' = "setup" /\ outcome' = outcome
       ELSE pc' = "exited" /\ outcome' = UsageError(outcome)
    /\ UNCHANGED <<args, env, ai_processor>>
    /\ UNCHANGED pipeline

\* where main goes with a processor: the connection test, the list of
\* models, or normal processing
Mode(a) ==
    IF a.test_connection THEN "test_connection"
    ELSE IF a.list_models THEN "list_models"
    ELSE "validate"

\* the first try: ai_processor = AIProcessor(...), before anything else
Setup ==
    /\ pc = "setup"
    /\ ai_processor' = AIProcessor(ProviderArg(args, env), ModelArg(args, env), env)
    /\ IF ai_processor'.ok
       THEN pc' = Mode(args) /\ outcome' = outcome
       ELSE pc' = "exited" /\ outcome' = Fatal(outcome, "Failed to setup AI processor")
    /\ UNCHANGED <<args, env>>
    /\ UNCHANGED pipeline

\* --test-connection, the provider answering response
TestConnection(response) ==
    /\ pc = "test_connection"
    /\ sent' = sent \o Issued(TestPrompt)
    /\ outcome' = IF HasOK(Upper(response))
                  THEN Exited(Said(Said(outcome, "Testing", NoOutput),
                                   "[OK] Connection successful", NoOutput), 0)
                  ELSE Exited(Warned(Said(outcome, "Testing", NoOutput),
                                     "WARNING:", "Unexpected response"), 1)
    /\ pc' = "exited"
    /\ UNCHANGED <<args, env, ai_processor>>
    /\ UNCHANGED <<runs, clock, section, text, input, raw, summary, index, error,
                   result, debug, files, attempts, written, anomalies, lost>>

\* --test-connection, call_ai raising
TestConnectionFails(e) ==
    /\ pc = "test_connection"
    /\ sent' = sent \o Issued(TestPrompt)
    /\ error' = CallFailure(e)
    /\ outcome' = Fatal(Said(outcome, "Testing", NoOutput), "Connection test failed")
    /\ pc' = "exited"
    /\ UNCHANGED <<args, env, ai_processor>>
    /\ UNCHANGED <<runs, clock, section, text, input, raw, summary, index,
                   result, debug, files, attempts, written, anomalies, lost>>

\* --list-models: client.models.list() returns, or raises
ListModels(ok) ==
    /\ pc = "list_models"
    /\ sent' = Append(sent, ModelsRequest)
    /\ outcome' = IF ok
                  THEN Exited(Said(Said(outcome, "Querying", NoOutput),
                                   "Available models", NoOutput), 0)
                  ELSE Fatal(Said(outcome, "Querying", NoOutput),
                             "Failed to query models")
    /\ pc' = "exited"
    /\ UNCHANGED <<args, env, ai_processor>>
    /\ UNCHANGED <<runs, clock, section, text, input, raw, summary, index, error,
                   result, debug, files, attempts, written, anomalies, lost>>

\* the checks of normal processing mode: the required options, the text file
Validate ==
    /\ pc = "validate"
    /\ IF Missing(args) # Unset
       THEN pc' = "exited" /\ outcome' = Fatal(outcome, Missing(args))
       ELSE IF ~env.exists
       THEN pc' = "exited" /\ outcome' = Fatal(outcome, "Text file not found")
       ELSE pc' = "mkdir" /\ outcome' = outcome
    /\ UNCHANGED <<args, env, ai_processor>>
    /\ UNCHANGED pipeline

\* args.output_dir.mkdir(...), outside any try, and the second
\* ai_processor = AIProcessor(...); then process_section is called
MakeOutputDir(ok) ==
    /\ pc = "mkdir"
    /\ IF ~ok
       THEN /\ pc' = "exited"
            /\ outcome' = Uncaught(outcome, "mkdir")
            /\ ai_processor' = ai_processor
       ELSE /\ ai_processor' =
                   AIProcessor(ProviderArg(args, env), ModelArg(args, env), env)
            /\ IF ai_processor'.ok
               THEN pc' = "idle" /\ outcome' = outcome
               ELSE /\ pc' = "exited"
                    /\ outcome' = Fatal(outcome, "Failed to setup AI processor")
    /\ UNCHANGED <<args, env>>
    /\ UNCHANGED pipeline

\* result = process_section(args.text_file, section_info, ...), the file
\* holding bytes
Process(bytes) ==
    /\ runs = 0
    /\ pc = "idle"
    /\ Begin(SectionInfo(args), bytes)

\* print(json.dumps(output)), and main returns
Report ==
    /\ pc = "done"
    /\ outcome' = Exited(Said(outcome, "success", Output(result)), 0)
    /\ pc' = "exited"
    /\ UNCHANGED <<args, env, ai_processor>>
    /\ UNCHANGED pipeline

\* except Exception as e: print(f"ERROR: {e}", file=sys.stderr); sys.exit(1)
Abort ==
    /\ pc = "failed"
    /\ outcome' = Fatal(outcome, error.kind)
    /\ pc' = "exited"
    /\ UNCHANGED <<args, env, ai_processor>>
    /\ UNCHANGED pipeline

NextMain ==
    \/ ParseArgs
    \/ Setup
    \/ \E r \in TestResponses : TestConnection(r)
    \/ \E e \in ProviderMessages : TestConnectionFails(e)
    \/ \E ok \in BOOLEAN : ListModels(ok)
    \/ Validate
    \/ \E ok \in BOOLEAN : MakeOutputDir(ok)
    \/ \E bytes \in TextFiles : Process(bytes)
    \/ \E r \in SummaryResponses, ok \in BOOLEAN : Summarize(r, ok)
    \/ Index
    \/ \E e \in ProviderMessages : ProviderFails(e)
    \/ WriteSummary
    \/ WriteIndex
    \/ ArtifactWriteFails
    \/ Report
    \/ Abort

MainSpec == InitMain /\ [][NextMain]_vars

(***************************************************************************)
(* Notions the properties are stated in                                    *)
(***************************************************************************)
\* generate_index has handled a provider response
IndexHandled == raw.index # <<>>

\* generate_index has returned a value
IndexReturned == pc \in {"write_summary", "write_index", "done"}

\* generate_index has failed on an unparsable response
IndexFailed == pc = "failed" /\ error.kind = "json_parse"

\* generate_summary has handled a provider response
Summarized == raw.summary # <<>>

IsForensics(name) == name[1] \in {"FAILED-summary-response", "FAILED-index-response"}

\* the forensics writes of the given kind attempted by the invocation
AttemptsOf(kind) == {i \in DOMAIN attempts : attempts[i].name[1] = kind}

\* a is the text of the first characters of b (run-length strings)
IsPrefix(a, b) ==
    \/ a = <<>>
    \/ /\ Len(a) <= Len(b)
       /\ \A i \in 1..(Len(a) - 1) : a[i] = b[i]
       /\ a[Len(a)].ch = b[Len(a)].ch
       /\ a[Len(a)].n <= b[Len(a)].n

\* every character of the run-length string is whitespace
AllSpace(t) == \A i \in DOMAIN t : t[i].ch \in {" ", "\n", "\r", "\t"}

\* some part of the token string r is the text of a JSON object
ContainsObject(r) ==
    \E a \in 1..Len(r) : \E b \in a..Len(r) :
        r[a] = "{" /\ r[b] = "}" /\ json_loads(SubSeq(r, a, b)).ok

\* the JSON texts among the generated payloads
JsonPayloads == {p \in Payloads(MaxDepth) : json_loads(p).ok}

(***************************************************************************)
(* C1: a JSON payload wrapped in a fenced code block (tagged json or       *)
(* untagged) comes back from generate_index as the value of the payload:   *)
(* parse(extract(wrap(json))) = json.                                      *)
(***************************************************************************)
C1_FencedRoundTrip ==
    \A p \in JsonPayloads :
        raw.index \in Fenced(p) => IndexReturned /\ index = Parsed(json_loads(p))

(***************************************************************************)
(* C2: when the fenced-block stage finds no match or its contents do not   *)
(* parse, the text from the first "{" to the last "}" of the complete      *)
(* provider response is parsed, and if it parses generate_index returns    *)
(* that value.                                                             *)
(***************************************************************************)
Stage1Parses(r) == re_search(r).found /\ json_loads(re_search(r).group).ok

C2_FallbackOnFullResponse ==
    (IndexHandled /\ ~Stage1Parses(raw.index) /\ Fallback(raw.index).ok)
        => IndexReturned /\ index = Parsed(Fallback(raw.index))

(***************************************************************************)
(* C3: whenever generate_index returns, the value is a JSON object, never  *)
(* an array, string, number or null.                                       *)
(***************************************************************************)
C3_ReturnsObject == IndexReturned => index.type = "object"

(***************************************************************************)
(* C4: for a provider response that contains no parseable JSON object,     *)
(* generate_index fails, no index artifact is written, and exactly one     *)
(* forensics write is attempted, to                                        *)
(* FAILED-index-response-<section_name>-<time in whole seconds>.txt.       *)
(***************************************************************************)
C4_NoObjectFails ==
    (IndexHandled /\ ~ContainsObject(raw.index)) =>
        /\ IndexFailed
        /\ IndexFile(section) \notin DOMAIN files
        /\ Len(attempts) = 1
        /\ attempts[1].name =
               <<"FAILED-index-response", section.name,
                 ToString(clock \div TicksPerSecond), "txt">>

(***************************************************************************)
(* C5: the forensics file of a failed extraction holds the raw response    *)
(* exactly as the provider returned it, and the recorded length and the    *)
(* first/last 500 characters printed are those of the raw response.        *)
(***************************************************************************)
C5_ForensicsHoldsRawResponse ==
    IndexFailed =>
        /\ debug.length = StrLen(raw.index)
        /\ debug.first = THead(raw.index, DebugChars)
        /\ debug.last = TTail(raw.index, DebugChars)
        /\ \A i \in DOMAIN attempts :
               (attempts[i].ok /\ attempts[i].name[1] = "FAILED-index-response") =>
                   /\ files[attempts[i].name].tokens = raw.index
                   /\ files[attempts[i].name].length = StrLen(raw.index)

(***************************************************************************)
(* C6: a forensics write that fails changes nothing of the outcome:        *)
(* generate_summary still returns the provider response unchanged, and     *)
(* generate_index still fails with the JSON-parse error of the response,   *)
(* the one it raises when the write succeeds.                              *)
(***************************************************************************)
\* this step attempts a forensics write that fails
WriteFailsNow ==
    /\ Len(attempts') = Len(attempts) + 1
    /\ ~attempts'[Len(attempts')].ok

C6_WriteFailureNeverEscalates ==
    [][ WriteFailsNow =>
          /\ (pc = "summarize" =>
                /\ pc' = "index"
                /\ summary' = raw'.summary
                /\ error' = NoError)
          /\ (pc = "index" =>
                /\ pc' = "failed"
                /\ error' = Error("json_parse", Reassigned(raw'.index))
                /\ index' = NoIndex) ]_vars

\* both forensics writes of an invocation failed, and it ended on the parse error
C6_Witness ==
    /\ Len(attempts) = 2
    /\ ~attempts[1].ok
    /\ ~attempts[2].ok
    /\ summary = raw.summary
    /\ IndexFailed

(***************************************************************************)
(* C7: generate_summary attempts a forensics write exactly when the        *)
(* response has fewer than 100 characters; either way the response is      *)
(* returned unchanged, the invocation goes on to index generation, and     *)
(* the response is what the digest artifact holds.                         *)
(***************************************************************************)
C7_ShortSummaryIsNoError ==
    Summarized =>
        /\ summary = raw.summary
        /\ (AttemptsOf("FAILED-summary-response") # {}) <=> (RLen(raw.summary) < MinSummaryChars)
        /\ Cardinality(AttemptsOf("FAILED-summary-response")) <= 1
        /\ pc # "summarize"
        /\ (pc = "failed" => Len(sent) = 2)
        /\ (pc \in {"write_index", "done"} =>
                files[SummaryFile(section)].text = raw.summary)

\* a response of 99 characters was recorded, returned, and written as the digest
C7_Witness ==
    /\ RLen(raw.summary) = MinSummaryChars - 1
    /\ AttemptsOf("FAILED-summary-response") # {}
    /\ pc = "done"
    /\ files[SummaryFile(section)].text = raw.summary

(***************************************************************************)
(* C8: when every forensics write succeeds, the output directory holds     *)
(* one forensics file for each anomaly that occurred (short summaries      *)
(* and failed extractions).                                                *)
(***************************************************************************)
C8_OneFilePerAnomaly ==
    lost = 0 => Cardinality({n \in DOMAIN files : IsForensics(n)}) = anomalies

(***************************************************************************)
(* C9: when the text read is empty or only whitespace, process_section     *)
(* fails with the empty-input error, having issued no provider request     *)
(* and written no file.                                                    *)
(***************************************************************************)
C9_BlankInputFailsFirst ==
    (runs > 0 /\ AllSpace(text)) =>
        /\ pc = "failed"
        /\ error.kind = "empty_input"
        /\ sent = <<>>
        /\ attempts = <<>>
        /\ written = <<>>

\* a text of spaces and a newline was read and rejected
C9_Witness ==
    /\ runs > 0
    /\ text # <<>>
    /\ AllSpace(text)
    /\ pc = "failed"

(***************************************************************************)
(* C10: in the summary prompt and in the index prompt, the embedded source *)
(* is the first min(len(text), 50000) characters of the text, and the      *)
(* truncation marker is there exactly when len(text) > 50000.              *)
(***************************************************************************)
C10_PromptTruncation ==
    \A i \in DOMAIN sent :
        /\ IsPrefix(sent[i].source, text)
        /\ RLen(sent[i].source) =
               (IF RLen(text) < MaxSourceChars THEN RLen(text) ELSE MaxSourceChars)
        /\ sent[i].marker <=> (RLen(text) > MaxSourceChars)

\* both prompts were sent for a text of 50,001 characters
C10_Witness ==
    /\ Len(sent) = 2
    /\ sent[1].task = "summary"
    /\ sent[2].task = "index"
    /\ RLen(text) = MaxSourceChars + 1
    /\ sent[2].marker
    /\ RLen(sent[2].source) = MaxSourceChars

(***************************************************************************)
(* C11: every call_ai issues exactly one provider request, so the requests *)
(* of an invocation are as many as the calls that returned or failed: at   *)
(* most two, the summary prompt and then the index prompt.  A failed call  *)
(* ends the invocation with an error that carries the provider's message,  *)
(* and when the summary call fails no index request is issued.             *)
(***************************************************************************)
C11_SingleAttempt ==
    /\ Len(sent) = (IF Summarized THEN 1 ELSE 0) + (IF IndexHandled THEN 1 ELSE 0)
                     + (IF error.kind = "provider" THEN 1 ELSE 0)
    /\ Len(sent) <= 2
    /\ \A i \in DOMAIN sent : sent[i].task = (IF i = 1 THEN "summary" ELSE "index")
    /\ error.kind = "provider" =>
          /\ pc = "failed"
          /\ error.doc[Len(error.doc)] \in ProviderMessages
          /\ index = NoIndex
          /\ (~Summarized => Len(sent) = 1 /\ ~IndexHandled)

\* the summary request failed: it is the only request, and the invocation failed
C11_Witness ==
    /\ error.kind = "provider"
    /\ ~Summarized
    /\ Len(sent) = 1
    /\ sent[1].task = "summary"
    /\ pc = "failed"

(***************************************************************************)
(* Notions of a whole run of main                                          *)
(***************************************************************************)
\* the provider kind the run asks for, as the constructor sees it
RequestedKind == Lower(ProviderArg(args, env))

\* the provider kind is none of the two supported
UnsupportedProvider == RequestedKind \notin {"anthropic", "openai"}

\* the credential variable of the selected kind is absent or empty
MissingCredential ==
    \/ RequestedKind = "anthropic" /\ env.ANTHROPIC_API_KEY \in {Unset, ""}
    \/ RequestedKind = "openai" /\ env.OPENAI_API_KEY \in {Unset, ""}

\* the argument parser rejects the command line
Rejected == args.provider \notin {Unset, "anthropic", "openai"}

\* main has been through its first construction of the processor
SetupDone == pc \notin {"main", "setup"} /\ ~Rejected

\* neither --test-connection nor --list-models
NormalMode == ~args.test_connection /\ ~args.list_models

Exit(status) == pc = "exited" /\ outcome.exit = <<status>>

\* the run wrote the digest and then the index of its section
BothArtifactsWritten ==
    \E i, j \in DOMAIN written :
        /\ i < j
        /\ written[i] = <<args.source_name, "digest", args.section_name, "md">>
        /\ written[j] = <<args.source_name, "index", args.section_name, "json">>

\* the success object is on standard output
SuccessReported == \E i \in DOMAIN outcome.stdout : outcome.stdout[i].output.success

\* a diagnostic with the prefix ERROR: is on standard error
ErrorReported == \E i \in DOMAIN outcome.stderr : outcome.stderr[i].prefix = "ERROR:"

\* a required option of normal processing mode is missing
MissingArgument ==
    \/ args.text_file = Unset
    \/ args.section_name \in {Unset, ""}
    \/ args.section_title \in {Unset, ""}
    \/ args.source_name \in {Unset, ""}
    \/ args.output_dir = Unset

\* the fatal conditions that come after a successful construction
FatalAfterSetup ==
    \/ ai_processor.ok /\ NormalMode /\ MissingArgument
    \/ ai_processor.ok /\ NormalMode /\ ~env.exists
    \/ error.kind \in {"empty_input", "provider", "json_parse", "io"}

\* the files the invocation wrote, and those of them in the output directory
Produced == {written[i] : i \in DOMAIN written}

InOutputDir ==
    {n \in Produced : IsForensics(n) => ForensicsDir(env) = args.output_dir}

\* the number of "\r\n" pairs of a run-length string
CRLFs(s) ==
    Cardinality({i \in 1..(Len(s) - 1) : s[i].ch = "\r" /\ s[i + 1].ch = "\n"})

\* an output artifact among the files the invocation wrote
ArtifactWritten == \E n \in Produced : ~IsForensics(n)

(***************************************************************************)
(* C12: the construction of the processor fails when the provider kind is  *)
(* none of the two supported or the credential variable of the selected    *)
(* kind is absent or empty; such a run ends with status 1 having issued no *)
(* provider request and read or written no file.  A processor constructed  *)
(* with no model name has the default model of its provider.               *)
(***************************************************************************)
C12_ConfigurationErrors ==
    /\ (UnsupportedProvider \/ MissingCredential) =>
          /\ ~ai_processor.ok
          /\ pc \in {"main", "setup", "exited"}
          /\ sent = <<>>
          /\ runs = 0
          /\ input = <<>>
          /\ files = <<>>
          /\ attempts = <<>>
          /\ written = <<>>
          /\ (SetupDone => Exit(1) /\ ai_processor.error # "")
    /\ ai_processor.ok =>
          /\ ai_processor.provider = RequestedKind
          /\ (ModelArg(args, env) \in {Unset, ""} =>
                ai_processor.model =
                    (IF ai_processor.provider = "anthropic"
                     THEN "claude-sonnet-4-5-20250929" ELSE "gpt-4-turbo-preview"))
          /\ (ModelArg(args, env) \notin {Unset, ""} =>
                ai_processor.model = ModelArg(args, env))

\* a run with an empty credential ended at the construction
C12_Witness ==
    /\ RequestedKind = "anthropic"
    /\ env.ANTHROPIC_API_KEY = ""
    /\ "anthropic" \in env.installed
    /\ SetupDone
    /\ Exit(1)
    /\ ErrorReported

C14_TwoFilesAndCharCount ==
    result # NoResult =>
        /\ InOutputDir = { <<args.source_name, "digest", args.section_name, "md">>,
                           <<args.source_name, "index", args.section_name, "json">> }
        /\ result.char_count = RLen(Decode(input))

(***************************************************************************)
(* C15: process_section reads and checks the text, then summarizes, then   *)
(* generates the index, then writes; no output artifact is written before  *)
(* both the summary call and the index generation have succeeded, so an    *)
(* invocation in which the provider or the index generation fails has      *)
(* written no artifact; and the digest is written before the index.        *)
(***************************************************************************)
C15_NoIntermediatePersistence ==
    /\ Summarized => runs > 0 /\ ~AllSpace(text)
    /\ IndexHandled => Summarized
    /\ ArtifactWritten =>
          /\ Summarized
          /\ IndexHandled
          /\ index # NoIndex
          /\ error.kind \notin {"provider", "json_parse", "empty_input"}
    /\ (IndexFailed \/ error.kind = "provider") => ~ArtifactWritten
    /\ \A j \in DOMAIN written :
          written[j] = IndexFile(section) =>
              \E i \in 1..(j - 1) : written[i] = SummaryFile(section)

\* the index generation failed after a summary was returned: no artifact
\* of this invocation exists
C15_Witness ==
    /\ IndexFailed
    /\ Summarized
    /\ summary # <<>>
    /\ ~ArtifactWritten

=============================================================================
